---- MODULE Spec2Model ----
(***************************************************************************)
(* Transaction-processing engine of the ledger: the handlers of            *)
(* internal-transaction, inbound-transaction and outbound-transaction      *)
(* request events (src/nostr/*.ts), the shared checks of getTxHandler      *)
(* (src/lib/transactions.ts), the balance primitives and the events        *)
(* published to the outbox (src/lib/events.ts).                            *)
(*                                                                         *)
(* The database is the tables events, transactions, balances and           *)
(* balance_snapshots.  A handler run is a record with a program counter:   *)
(* every await of the handler is one step.  The interactive DB transaction *)
(* is two steps, its reads (TxRead) and its writes with the commit         *)
(* (TxCommit); a failed transaction writes nothing.                        *)
(***************************************************************************)
EXTENDS Integers, Sequences, FiniteSets, TLC

\* ------------------------------------------------------------- bounds
\* number of request events the relay delivers
MaxDeliveries == 3
\* number of transient database faults injected into DB transactions
MaxFaults == 1

\* ------------------------------------------------------------- constants
MAX_RETRIES == 10
KindREGULAR == 1112
KindPARAMETRIZED_REPLACEABLE == 31111

\* requiredEnvVar('MINTER_PUBLIC_KEY')
MINTER == "M"

INTERNAL == "internal-transaction"
INBOUND == "inbound-transaction"
OUTBOUND == "outbound-transaction"

\* rows of the static tables: tokens (id = name) and transaction_types
TokenRows == <<"T1", "T2">>
TransactionTypeRows == {INTERNAL, INBOUND, OUTBOUND}

\* the value of a missing delegation tag, of a delegation tag that
\* nip26.getDelegator cannot resolve, and of prev_snapshot_id of a first
\* snapshot
NoDelegation == "none"
BadDelegation == "bad"
Null == 0

\* ------------------------------------------------------------- requests
\* A signed request event as the relay delivers it.  type is the handler its
\* t tag selects, pubkey the signer, delegation the delegator named by the
\* delegation tag, receiver the second p tag, content the text of the event
\* (a JSON object with the tokens it declares, or a text JSON.parse rejects),
\* etags the e tags it carries.  The id of a request event is its index in
\* NostrEvents.
Json(tokens) == [parses |-> TRUE, tokens |-> tokens]
Unparsable == [parses |-> FALSE, tokens |-> <<>>]

Req(type, pubkey, delegation, receiver, content, etags) ==
    [type |-> type, pubkey |-> pubkey, delegation |-> delegation,
     receiver |-> receiver, content |-> content, etags |-> etags]

NostrEvents ==
    << Req(INBOUND,  "M", NoDelegation, "M", Json(("T1" :> 3)), <<>>),
       Req(INBOUND,  "M", NoDelegation, "A", Json(("T1" :> -1)), <<>>),
       Req(INBOUND,  "A", NoDelegation, "A", Json(("T1" :> 2)), <<>>),
       Req(INTERNAL, "M", NoDelegation, "A", Json(("T1" :> 1)), <<>>),
       Req(INTERNAL, "M", NoDelegation, "A", Json(("T1" :> 2)), <<>>),
       Req(INTERNAL, "M", NoDelegation, "A",
           Json(("T1" :> 1) @@ ("T2" :> 1)), <<>>),
       Req(INTERNAL, "M", NoDelegation, "M", Json(("T1" :> 3)), <<>>),
       Req(OUTBOUND, "M", NoDelegation, "A", Json(("T1" :> 1)), <<>>),
       Req(OUTBOUND, "M", NoDelegation, "A", Json(("T1" :> 3)), <<>>),
       Req(OUTBOUND, "A", NoDelegation, "M", Json(("T1" :> 1)), <<>>),
       Req(INTERNAL, "M", NoDelegation, "A", Unparsable, <<>>),
       Req(INTERNAL, "M", NoDelegation, "A", Json(("T9" :> 1)), <<>>),
       Req(INTERNAL, "M", BadDelegation, "A", Json(("T1" :> 1)), <<>>),
       Req(INTERNAL, "M", NoDelegation, "A", Json(("T9" :> 0)), <<>>),
       Req(INTERNAL, "M", "B", "A", Json(("T1" :> 1)), <<>>),
       Req(INTERNAL, "M", NoDelegation, "A", Json(("T1" :> 2)), <<100>>),
       Req(INBOUND,  "M", NoDelegation, "A", Json(("T1" :> 2)), <<>>) >>

EventIds == 1..Len(NostrEvents)

\* the requests whose content parses, whose tokens have a row and whose
\* author resolves, and the others
Wellformed == 1..10
Malformed == 11..14

\* a request signed by a delegate of its author, and a request that carries
\* an e tag
Delegated == {15}
Tagged == {16}

\* ------------------------------------------------------------- state
VARIABLES
    events,        \* table events: sequence of rows
    transactions,  \* table transactions: sequence of rows, id = index
    balances,      \* table balances: set of rows
    snapshots,     \* table balance_snapshots: sequence of rows, id = index
    outbox,        \* events handed to ctx.outbox.publish, in order
    runs,          \* handler runs, in the order they were started
    timers,        \* pending setTimeout callbacks (deferred re-announcement)
    rootNtry,      \* ntry of the closure getHandler(ctx, 0) of each variant
    delivered,     \* number of deliveries made
    faults,        \* number of transient faults injected
    transactionTypes,  \* table transaction_types: the names that have a row
    relay,         \* the request events the relay holds for the ledger
    pending        \* how many handler invocations the relay lets pend at once

\* what no handler writes: the seeded table, the relay's events and the pace
\* of its deliveries
seed == <<transactionTypes, relay, pending>>

vars == <<events, transactions, balances, snapshots, outbox, runs, timers,
          rootNtry, delivered, faults, transactionTypes, relay, pending>>

\* ------------------------------------------------------------- helpers
Range(s) == {s[i] : i \in DOMAIN s}

RECURSIVE SumSeq(_)
SumSeq(s) == IF s = <<>> THEN 0 ELSE Head(s) + SumSeq(Tail(s))

\* the tokens of TokenRows whose name is in names, in table order
TokensWhere(names) == SelectSeq(TokenRows, LAMBDA t : t \in names)


RECURSIVE SeqOf(_)
\* the rows of a query result as a list (the database fixes some order)
SeqOf(S) == IF S = {} THEN <<>>
            ELSE LET x == CHOOSE y \in S : TRUE IN <<x>> \o SeqOf(S \ {x})

\* ------------------------------------------------------------- events.ts
\* JSON.parse(event.content, reviver) of nostrEventToDB: the payload, which
\* stays undefined when the parse throws
Payload(content) ==
    IF content.parses THEN [undefined |-> FALSE, tokens |-> content.tokens]
    ELSE [undefined |-> TRUE, tokens |-> <<>>]

\* nostrEventToDB: the Event row of a request; author is the delegator when a
\* delegation tag is there ("null" when getDelegator cannot resolve it)
nostrEventToDB(id) ==
    LET e == NostrEvents[id] IN
    [id |-> id,
     author |-> IF e.delegation = NoDelegation THEN e.pubkey
                ELSE IF e.delegation = BadDelegation THEN "null"
                ELSE e.delegation,
     signer |-> e.pubkey,
     payload |-> Payload(e.content)]

\* nostrEventToDB throws Error('Invalid author')
InvalidAuthor(id) == nostrEventToDB(id).author = "null"

\* the ITransaction getTxHandler builds from the request
ITransaction(id) ==
    [txType |-> NostrEvents[id].type,
     senderId |-> NostrEvents[id].pubkey,
     receiverId |-> NostrEvents[id].receiver,
     eventId |-> id,
     content |-> nostrEventToDB(id).payload,
     extraTags |-> <<>>]

\* txResultEvent: the outcome event of a request
txResultEvent(content, tx, success) ==
    [kind |-> KindREGULAR,
     p |-> tx.senderId,
     p2 |-> tx.receiverId,
     e |-> <<tx.eventId>> \o tx.extraTags,
     t |-> <<tx.txType, IF success THEN "ok" ELSE "error">>,
     content |-> content,
     d |-> <<>>,
     amount |-> 0]

\* the content of an ok event is the JSON text of the request content
txOkEvent(tx) == txResultEvent("content", tx, TRUE)

\* an error event whose e tag does not name the request: what C12 rests on
txErrorEventUntagged(message, tx) ==
    [txResultEvent(message, tx, FALSE) EXCEPT !.e = <<0>>]

txErrorEvent(message, tx) == txResultEvent(message, tx, FALSE)

\* an announcement that does not carry the amount of the balance: what C35
\* rests on
balanceEventWithoutAmount(balance, eventId) ==
    [kind |-> KindPARAMETRIZED_REPLACEABLE,
     p |-> balance.accountId,
     p2 |-> "",
     e |-> <<eventId>>,
     t |-> <<>>,
     content |-> "{}",
     d |-> <<"balance", balance.tokenId, balance.accountId>>,
     amount |-> 0]

\* balanceEvent: the announcement of the amount of one balance
balanceEvent(balance, eventId) ==
    [kind |-> KindPARAMETRIZED_REPLACEABLE,
     p |-> balance.accountId,
     p2 |-> "",
     e |-> <<eventId>>,
     t |-> <<>>,
     content |-> "{}",
     d |-> <<"balance", balance.tokenId, balance.accountId>>,
     amount |-> balance.amount]

\* ------------------------------------------------------------- database
\* a lookup that never finds the row: what C1 rests on
EventNeverFound(id) == FALSE

\* prisma.event.findUnique({ where: { id } }) !== null
EventExists(id) == \E i \in DOMAIN events : events[i].id = id

\* a table events without a primary key: what C30 rests on
EventIdFree(id) == FALSE

\* the primary key of events: event.create throws on an id that is stored
EventIdTaken(id) == EventExists(id)

\* a Balance row with its snapshot included (ExtBalance)
Ext(b) ==
    [accountId |-> b.accountId, tokenId |-> b.tokenId,
     snapshotId |-> b.snapshotId, eventId |-> b.eventId,
     amount |-> snapshots[b.snapshotId].amount,
     transactionId |-> snapshots[b.snapshotId].transactionId]

\* the rows of the table balances, each with its snapshot
ExtBalances == {Ext(b) : b \in balances}

\* balance.findMany({ where, include: { snapshot: true, token: true } });
\* where is the set of the rows the query's filter keeps
FindMany(where) == SeqOf(where \cap ExtBalances)

\* the tokens a request names, and those of them that have a Token row
TokenNames(tx) == DOMAIN tx.content.tokens
TokensFound(tx) == TokensWhere(TokenNames(tx))

\* snapshotCreate without the link to the former snapshot: what C6 rests on
snapshotCreateUnlinked(balance, delta) ==
    [prevSnapshotId |-> Null,
     amount |-> balance.amount,
     transactionId |-> balance.transactionId,
     eventId |-> balance.eventId,
     delta |-> delta,
     tokenId |-> balance.tokenId,
     accountId |-> balance.accountId]

\* snapshotCreate: the data of the BalanceSnapshot of an updated balance
snapshotCreate(balance, delta) ==
    [prevSnapshotId |-> balance.snapshotId,
     amount |-> balance.amount,
     transactionId |-> balance.transactionId,
     eventId |-> balance.eventId,
     delta |-> delta,
     tokenId |-> balance.tokenId,
     accountId |-> balance.accountId]

\* an update that rewrites the snapshot the balance points to instead of
\* creating one: what C29 rests on
balanceUpdateInPlace(T, balance, eventId, snapshot) ==
    [T EXCEPT
       !.snapshots = [@ EXCEPT ![balance.snapshotId] = snapshot],
       !.balances = {IF r.accountId = balance.accountId
                        /\ r.tokenId = balance.tokenId
                     THEN [r EXCEPT !.eventId = eventId]
                     ELSE r : r \in @},
       !.out = Append(@, balance)]

\* tx.balance.update({ where: { accountId_tokenId }, data: { event: connect,
\* snapshot: { create } } }) inside the DB transaction T
balanceUpdate(T, balance, eventId, snapshot) ==
    LET sid == Len(T.snapshots) + 1 IN
    [T EXCEPT
       !.snapshots = Append(@, snapshot),
       !.balances = {IF r.accountId = balance.accountId
                        /\ r.tokenId = balance.tokenId
                     THEN [r EXCEPT !.snapshotId = sid, !.eventId = eventId]
                     ELSE r : r \in @},
       !.out = Append(@, balance)]

RECURSIVE removeKeepingEvent(_, _, _, _, _)
\* a debit that leaves balance.eventId as it was read: what C7 rests on
removeKeepingEvent(T, bals, event, transaction, intTx) ==
    IF bals = <<>> THEN T
    ELSE LET txAmount == intTx.content.tokens[Head(bals).tokenId]
             balance == [Head(bals) EXCEPT !.amount = @ - txAmount,
                                           !.transactionId = transaction.id]
         IN removeKeepingEvent(
                balanceUpdate(T, balance, transaction.eventId,
                              snapshotCreate(balance, -txAmount)),
                Tail(bals), event, transaction, intTx)

RECURSIVE removeFromBalances(_, _, _, _, _)
\* debit every balance of the list by the amount the request names
removeFromBalances(T, bals, event, transaction, intTx) ==
    IF bals = <<>> THEN T
    ELSE LET txAmount == intTx.content.tokens[Head(bals).tokenId]
             balance == [Head(bals) EXCEPT !.eventId = event.id,
                                           !.amount = @ - txAmount,
                                           !.transactionId = transaction.id]
         IN removeFromBalances(
                balanceUpdate(T, balance, transaction.eventId,
                              snapshotCreate(balance, -txAmount)),
                Tail(bals), event, transaction, intTx)

\* a credit that subtracts as the debit does: what C3 rests on
addBySubtracting(T, bals, event, transaction, intTx) ==
    removeFromBalances(T, bals, event, transaction, intTx)

RECURSIVE addToBalances(_, _, _, _, _)
\* credit every balance of the list by the amount the request names
addToBalances(T, bals, event, transaction, intTx) ==
    IF bals = <<>> THEN T
    ELSE LET txAmount == intTx.content.tokens[Head(bals).tokenId]
             balance == [Head(bals) EXCEPT !.eventId = event.id,
                                           !.amount = @ + txAmount,
                                           !.transactionId = transaction.id]
         IN addToBalances(
                balanceUpdate(T, balance, transaction.eventId,
                              snapshotCreate(balance, txAmount)),
                Tail(bals), event, transaction, intTx)

\* the unique key (account_id, token_id) of balances
BalanceKeyTaken(T, accountId, tokenId) ==
    \E r \in T.balances : r.accountId = accountId /\ r.tokenId = tokenId

RECURSIVE createUnlessPresent(_, _, _, _, _)
\* an INSERT that skips a (account_id, token_id) that has a row instead of
\* failing: what C5 rests on
createUnlessPresent(T, newBalances, event, transaction, intTx) ==
    IF newBalances = <<>> THEN T
    ELSE LET token == Head(newBalances)
             txAmount == intTx.content.tokens[token]
             sid == Len(T.snapshots) + 1
         IN IF BalanceKeyTaken(T, intTx.receiverId, token)
            THEN createUnlessPresent(T, Tail(newBalances), event, transaction,
                                     intTx)
            ELSE createUnlessPresent(
                   [T EXCEPT
                      !.balances = @ \cup
                          {[accountId |-> intTx.receiverId, tokenId |-> token,
                            snapshotId |-> sid, eventId |-> event.id]},
                      !.snapshots = Append(@,
                          [prevSnapshotId |-> Null, amount |-> txAmount,
                           transactionId |-> transaction.id,
                           eventId |-> event.id, delta |-> txAmount,
                           tokenId |-> token,
                           accountId |-> intTx.receiverId]),
                      !.out = Append(@,
                          [accountId |-> intTx.receiverId, tokenId |-> token,
                           snapshotId |-> sid, eventId |-> event.id,
                           amount |-> txAmount,
                           transactionId |-> transaction.id])],
                   Tail(newBalances), event, transaction, intTx)

RECURSIVE createBalances(_, _, _, _, _)
\* insert a Balance and its first BalanceSnapshot for every token of the list;
\* the INSERT fails on a (account_id, token_id) that has a row
createBalances(T, newBalances, event, transaction, intTx) ==
    IF newBalances = <<>> \/ ~T.ok THEN T
    ELSE LET token == Head(newBalances)
             txAmount == intTx.content.tokens[token]
             sid == Len(T.snapshots) + 1
         IN IF BalanceKeyTaken(T, intTx.receiverId, token)
            THEN [T EXCEPT !.ok = FALSE]
            ELSE createBalances(
                   [T EXCEPT
                      !.balances = @ \cup
                          {[accountId |-> intTx.receiverId, tokenId |-> token,
                            snapshotId |-> sid, eventId |-> event.id]},
                      !.snapshots = Append(@,
                          [prevSnapshotId |-> Null, amount |-> txAmount,
                           transactionId |-> transaction.id,
                           eventId |-> event.id, delta |-> txAmount,
                           tokenId |-> token,
                           accountId |-> intTx.receiverId]),
                      !.out = Append(@,
                          [accountId |-> intTx.receiverId, tokenId |-> token,
                           snapshotId |-> sid, eventId |-> event.id,
                           amount |-> txAmount,
                           transactionId |-> transaction.id])],
                   Tail(newBalances), event, transaction, intTx)


\* ------------------------------------------------------------- handler runs
\* A run of the closure getTxHandler returns, for request req.  root tells the
\* closure of getHandler(ctx, 0), whose ntry is rootNtry; a retry runs in a
\* closure of its own, whose ntry is the field ntry.  code is the error the DB
\* transaction ended with, read the balances it read, result the balances it
\* returned, end the way the run ended.
NewRun(id, root, ntry) ==
    [req |-> id, root |-> root, ntry |-> ntry, pc |-> "lookup", code |-> "",
     read |-> [sender |-> <<>>, receiver |-> <<>>], result |-> <<>>,
     end |-> ""]

Idle == \A i \in DOMAIN runs : runs[i].pc = "done"

\* the handler invocations that have not settled
Pending == {i \in DOMAIN runs : runs[i].pc # "done"}

Finish(i, how) == [runs EXCEPT ![i].pc = "done", ![i].end = how]

Init ==
    /\ events = <<>>
    /\ transactions = <<>>
    /\ balances = {}
    /\ snapshots = <<>>
    /\ outbox = <<>>
    /\ runs = <<>>
    /\ timers = <<>>
    /\ rootNtry = [t \in {INTERNAL, INBOUND, OUTBOUND} |-> 0]
    /\ delivered = 0
    /\ faults = 0
    /\ transactionTypes = TransactionTypeRows
    /\ relay = Wellformed
    /\ pending = 1

\* the relay hands request event id to the handler its t tag subscribes,
\* while fewer than pending invocations are unsettled (Idle when pending = 1)
Deliver(id) ==
    /\ delivered < MaxDeliveries
    /\ id \in relay
    /\ Cardinality(Pending) < pending
    /\ delivered' = delivered + 1
    /\ runs' = Append(runs, NewRun(id, TRUE, 0))
    /\ UNCHANGED <<events, transactions, balances, snapshots, outbox, timers,
                   rootNtry, faults>>
    /\ UNCHANGED seed

\* getTxHandler: "Have we handled it before?"
Lookup(i) ==
    /\ runs[i].pc = "lookup"
    /\ runs' = IF EventExists(runs[i].req)
               THEN Finish(i, "dropped")
               ELSE [runs EXCEPT ![i].pc = "validate"]
    /\ UNCHANGED <<events, transactions, balances, snapshots, outbox, timers,
                   rootNtry, delivered, faults>>
    /\ UNCHANGED seed

\* a pre-validation without the check of the tokens: what C19 rests on
RejectionWithoutTokens(id) ==
    LET tx == ITransaction(id) IN
    IF tx.content.undefined THEN "Unparsable content"
    ELSE IF tx.txType \notin transactionTypes
    THEN "Transaction not supported"
    ELSE ""

\* the reason getTxHandler rejects the request with, "" when it runs the
\* handler of the variant
Rejection(id) ==
    LET tx == ITransaction(id) IN
    IF tx.content.undefined THEN "Unparsable content"
    ELSE IF Len(TokensFound(tx)) # Cardinality(TokenNames(tx))
    THEN "Token not supported"
    ELSE IF tx.txType \notin transactionTypes
    THEN "Transaction not supported"
    ELSE ""

\* a handler without the check of the author: what C8 rests on
NoMinterCheck(id) == FALSE

\* the check of the author the inbound and the outbound handler start with
NotMinter(id) ==
    /\ NostrEvents[id].type \in {INBOUND, OUTBOUND}
    /\ nostrEventToDB(id).author # MINTER

MinterMessage(type) ==
    IF type = INBOUND THEN "Author cannot mint this token"
    ELSE "Author cannot burn this token"

\* getTxHandler after the lookup, up to the start of the DB transaction:
\* nostrEventToDB, the checks of the content, the tokens and the transaction
\* type, and the check of the author of the inbound and outbound handlers.
\* A rejection stores the Event and publishes an error; event.create throws
\* on a stored id, which ends the run without a publication.
Validate(i) ==
    LET id == runs[i].req
        tx == ITransaction(id)
        reason == Rejection(id)
    IN
    /\ runs[i].pc = "validate"
    /\ IF InvalidAuthor(id)
       THEN /\ runs' = Finish(i, "crashed")
            /\ UNCHANGED <<events, outbox>>
       ELSE IF reason # ""
       THEN IF EventIdTaken(id)
            THEN /\ runs' = Finish(i, "crashed")
                 /\ UNCHANGED <<events, outbox>>
            ELSE /\ events' = Append(events,
                        [nostrEventToDB(id) EXCEPT !.payload.undefined = FALSE])
                 /\ outbox' = Append(outbox, txErrorEvent(reason, tx))
                 /\ runs' = Finish(i, "rejected")
       ELSE IF NotMinter(id)
       THEN IF EventIdTaken(id)
            THEN /\ runs' = Finish(i, "crashed")
                 /\ UNCHANGED <<events, outbox>>
            ELSE /\ events' = Append(events, nostrEventToDB(id))
                 /\ outbox' = Append(outbox,
                                     txErrorEvent(MinterMessage(tx.txType), tx))
                 /\ runs' = [runs EXCEPT ![i].pc = "tx"]
       ELSE /\ runs' = [runs EXCEPT ![i].pc = "tx"]
            /\ UNCHANGED <<events, outbox>>
    /\ UNCHANGED <<transactions, balances, snapshots, timers, rootNtry,
                   delivered, faults>>
    /\ UNCHANGED seed


\* the balances the DB transaction of a variant reads
\* internal: the sender's balances of the requested tokens that hold at least
\* the requested amount, and the receiver's balances of the requested tokens,
\* grouped by "accountId is the sender"
InternalRead(intTx) ==
    LET rows == FindMany({b \in ExtBalances :
                   \/ /\ b.accountId = intTx.senderId
                      /\ b.tokenId \in TokenNames(intTx)
                      /\ b.amount >= intTx.content.tokens[b.tokenId]
                   \/ /\ b.accountId = intTx.receiverId
                      /\ b.tokenId \in TokenNames(intTx)})
    IN [sender |-> SelectSeq(rows, LAMBDA b : b.accountId = intTx.senderId),
        receiver |-> SelectSeq(rows, LAMBDA b : b.accountId # intTx.senderId)]

\* an inbound read of the balances of the sender: what C16 rests on
InboundReadOfSender(intTx) ==
    [sender |-> <<>>,
     receiver |-> FindMany({b \in ExtBalances :
                              /\ b.accountId = intTx.senderId
                              /\ b.tokenId \in TokenNames(intTx)})]

\* inbound: the receiver's balances of the requested tokens
InboundRead(intTx) ==
    [sender |-> <<>>,
     receiver |-> FindMany({b \in ExtBalances :
                              /\ b.accountId = intTx.receiverId
                              /\ b.tokenId \in TokenNames(intTx)})]

\* outbound: the sender's balances of the requested tokens
OutboundRead(intTx) ==
    [sender |-> FindMany({b \in ExtBalances :
                            /\ b.accountId = intTx.senderId
                            /\ b.tokenId \in TokenNames(intTx)}),
     receiver |-> <<>>]

BalancesRead(intTx) ==
    IF intTx.txType = INTERNAL THEN InternalRead(intTx)
    ELSE IF intTx.txType = INBOUND THEN InboundRead(intTx)
    ELSE OutboundRead(intTx)

\* "Does sender have the funds?" of the internal handler
SenderLacksFunds(intTx, read) ==
    /\ intTx.txType = INTERNAL
    /\ Len(read.sender) # Len(TokensFound(intTx))

\* the first half of the DB transaction: a transient fault of the database,
\* or the reads and the check of the funds
TxRead(i) ==
    LET intTx == ITransaction(runs[i].req)
        read == BalancesRead(intTx)
    IN
    /\ runs[i].pc = "tx"
    /\ \/ /\ faults < MaxFaults
          /\ faults' = faults + 1
          /\ runs' = [runs EXCEPT ![i].pc = "catch", ![i].code = "P1001"]
       \/ /\ UNCHANGED faults
          /\ runs' = IF SenderLacksFunds(intTx, read)
                     THEN [runs EXCEPT ![i].pc = "catch", ![i].code = "P2025"]
                     ELSE [runs EXCEPT ![i].pc = "commit", ![i].read = read]
    /\ UNCHANGED <<events, transactions, balances, snapshots, outbox, timers,
                   rootNtry, delivered>>
    /\ UNCHANGED seed

\* the tokens the receiver gets a new Balance for
NewBalances(intTx, read) ==
    LET existingBalances == {read.receiver[k].tokenId : k \in DOMAIN read.receiver}
    IN IF intTx.txType = INTERNAL
       THEN TokensWhere({read.sender[k].tokenId : k \in DOMAIN read.sender}
                          \ existingBalances)
       ELSE IF intTx.txType = INBOUND
       THEN TokensWhere(TokenNames(intTx) \ existingBalances)
       ELSE <<>>

\* the writes of the DB transaction of a request on the tables balances and
\* balance_snapshots: debit the sender, credit the receiver, create the
\* receiver's new balances.  ok is FALSE when a statement failed.
Mutation(intTx, read, event, transaction) ==
    LET T0 == [balances |-> balances, snapshots |-> snapshots, out |-> <<>>,
               ok |-> TRUE]
        T1 == removeFromBalances(T0, read.sender, event, transaction, intTx)
        T2 == addToBalances(T1, read.receiver, event, transaction, intTx)
    IN createBalances(T2, NewBalances(intTx, read), event, transaction, intTx)

\* a DB transaction that resolves with its balances although its writes
\* were rolled back: what C33 rests on
TxCommitRolledBack(i) ==
    LET id == runs[i].req
        intTx == ITransaction(id)
        event == nostrEventToDB(id)
        transaction == [id |-> Len(transactions) + 1,
                        transactionTypeId |-> intTx.txType,
                        eventId |-> event.id]
        T == Mutation(intTx, runs[i].read, event, transaction)
    IN
    /\ runs[i].pc = "commit"
    /\ runs' = [runs EXCEPT ![i].pc = "then", ![i].result = T.out]
    /\ UNCHANGED <<events, transactions, balances, snapshots>>
    /\ UNCHANGED <<outbox, timers, rootNtry, delivered, faults>>
    /\ UNCHANGED seed

\* the second half of the DB transaction: transaction.create with its Event,
\* the writes, and the commit; any failing statement rolls everything back
TxCommit(i) ==
    LET id == runs[i].req
        intTx == ITransaction(id)
        event == nostrEventToDB(id)
        transaction == [id |-> Len(transactions) + 1,
                        transactionTypeId |-> intTx.txType,
                        eventId |-> event.id]
        T == Mutation(intTx, runs[i].read, event, transaction)
    IN
    /\ runs[i].pc = "commit"
    /\ IF EventIdTaken(id)
       THEN /\ runs' = [runs EXCEPT ![i].pc = "catch", ![i].code = "P2002"]
            /\ UNCHANGED <<events, transactions, balances, snapshots>>
       ELSE IF ~T.ok
       THEN /\ runs' = [runs EXCEPT ![i].pc = "catch", ![i].code = "P2010"]
            /\ UNCHANGED <<events, transactions, balances, snapshots>>
       ELSE /\ events' = Append(events, event)
            /\ transactions' = Append(transactions, transaction)
            /\ balances' = T.balances
            /\ snapshots' = T.snapshots
            /\ runs' = [runs EXCEPT ![i].pc = "then", ![i].result = T.out]
    /\ UNCHANGED <<outbox, timers, rootNtry, delivered, faults>>
    /\ UNCHANGED seed

\* an announcement of the first balance only: what C17 rests on
AnnounceFirst(bals, eventId) ==
    [k \in DOMAIN bals \cap {1} |-> balanceEvent(bals[k], eventId)]

\* the balance events of a list of balances, each with the id of the request
Announce(bals, eventId) ==
    [k \in DOMAIN bals |-> balanceEvent(bals[k], eventId)]

\* the setTimeout of the .then of a variant: the accounts and tokens it
\* queries again (none: the variant schedules nothing)
Republish(type, bals) ==
    IF bals = <<>> \/ type = INBOUND THEN <<>>
    ELSE IF type = INTERNAL
    THEN << [accounts |-> {bals[k].accountId : k \in DOMAIN bals},
             tokens |-> {bals[k].tokenId : k \in DOMAIN bals}] >>
    ELSE << [accounts |-> {bals[1].accountId},
             tokens |-> {bals[k].tokenId : k \in DOMAIN bals}] >>

\* a .then that publishes the balance events before the ok event: what C34
\* rests on
ThenOkLast(i) ==
    LET id == runs[i].req
        intTx == ITransaction(id)
    IN
    /\ runs[i].pc = "then"
    /\ outbox' = outbox \o Announce(runs[i].result, id) \o <<txOkEvent(intTx)>>
    /\ timers' = timers \o Republish(intTx.txType, runs[i].result)
    /\ runs' = Finish(i, "applied")
    /\ UNCHANGED <<events, transactions, balances, snapshots, rootNtry,
                   delivered, faults>>
    /\ UNCHANGED seed

\* .then of the DB transaction: the ok event, a balance event per balance the
\* transaction returned, and the timer of the re-announcement.  The outbound
\* variant concatenates the e tags of the request to the tags of an ok event
\* it does not publish; what it publishes is txOkEvent(intTx), as the others
Then(i) ==
    LET id == runs[i].req
        intTx == ITransaction(id)
    IN
    /\ runs[i].pc = "then"
    /\ outbox' = outbox \o <<txOkEvent(intTx)>> \o Announce(runs[i].result, id)
    /\ timers' = timers \o Republish(intTx.txType, runs[i].result)
    /\ runs' = Finish(i, "applied")
    /\ UNCHANGED <<events, transactions, balances, snapshots, rootNtry,
                   delivered, faults>>
    /\ UNCHANGED seed

\* ntry of the closure run i runs in
Ntry(i) == IF runs[i].root THEN rootNtry[NostrEvents[runs[i].req].type]
           ELSE runs[i].ntry

\* .catch of the DB transaction.  P2025 is "Not enough funds".  Any other
\* error is retried while ntry < MAX_RETRIES: ++ntry, and the request goes to
\* a new handler getHandler(ctx, ntry); the inbound handler calls
\* getHandler(++ntry), whose closure has no ctx.prisma and throws.  Otherwise
\* the request fails with "Network Error".  event.create throws on a stored
\* id.
Catch(i) ==
    LET id == runs[i].req
        intTx == ITransaction(id)
        type == intTx.txType
        fails == runs[i].code = "P2025" \/ Ntry(i) >= MAX_RETRIES
    IN
    /\ runs[i].pc = "catch"
    /\ IF fails
       THEN /\ UNCHANGED rootNtry
            /\ IF EventIdTaken(id)
               THEN /\ runs' = Finish(i, "crashed")
                    /\ UNCHANGED <<events, outbox>>
               ELSE /\ events' = Append(events, nostrEventToDB(id))
                    /\ outbox' = Append(outbox,
                          txErrorEvent(IF runs[i].code = "P2025"
                                       THEN "Not enough funds"
                                       ELSE "Network Error", intTx))
                    /\ runs' = Finish(i, IF runs[i].code = "P2025"
                                         THEN "rejected" ELSE "failed")
       ELSE /\ rootNtry' = IF runs[i].root
                           THEN [rootNtry EXCEPT ![type] = @ + 1]
                           ELSE rootNtry
            /\ runs' = IF type = INBOUND
                       THEN Finish(i, "crashed")
                       ELSE Append(Finish(i, "retried"),
                                   NewRun(id, FALSE, Ntry(i) + 1))
            /\ UNCHANGED <<events, outbox>>
    /\ UNCHANGED <<transactions, balances, snapshots, timers, delivered,
                   faults>>
    /\ UNCHANGED seed

\* the callback of setTimeout: query the balances of the accounts and tokens
\* again and publish a balance event for each row, with the row's event id
Timer(k) ==
    LET rows == FindMany({b \in ExtBalances :
                            /\ b.accountId \in timers[k].accounts
                            /\ b.tokenId \in timers[k].tokens})
    IN
    /\ k \in DOMAIN timers
    /\ outbox' = outbox \o [j \in DOMAIN rows |-> balanceEvent(rows[j], rows[j].eventId)]
    /\ timers' = SubSeq(timers, 1, k - 1) \o SubSeq(timers, k + 1, Len(timers))
    /\ UNCHANGED <<events, transactions, balances, snapshots, runs, rootNtry,
                   delivered, faults>>
    /\ UNCHANGED seed

Next ==
    \/ \E id \in EventIds : Deliver(id)
    \/ \E i \in DOMAIN runs : Lookup(i)
    \/ \E i \in DOMAIN runs : Validate(i)
    \/ \E i \in DOMAIN runs : TxRead(i)
    \/ \E i \in DOMAIN runs : TxCommit(i)
    \/ \E i \in DOMAIN runs : Then(i)
    \/ \E i \in DOMAIN runs : Catch(i)
    \/ \E k \in DOMAIN timers : Timer(k)

Spec == Init /\ [][Next]_vars

\* a ledger whose table transaction_types has no row for the outbound
\* variant, and a relay that also holds malformed requests: a mint, a
\* transfer and a burn, and the requests getTxHandler cannot read
InitUnseeded ==
    /\ events = <<>>
    /\ transactions = <<>>
    /\ balances = {}
    /\ snapshots = <<>>
    /\ outbox = <<>>
    /\ runs = <<>>
    /\ timers = <<>>
    /\ rootNtry = [t \in {INTERNAL, INBOUND, OUTBOUND} |-> 0]
    /\ delivered = 0
    /\ faults = 0
    /\ transactionTypes = TransactionTypeRows \ {OUTBOUND}
    /\ relay = {1, 4, 8} \cup Malformed \cup Delegated \cup Tagged
    /\ pending = 1

SpecUnseeded == InitUnseeded /\ [][Next]_vars

\* a relay that delivers a request while the handler of another is unsettled:
\* the handlers are async callbacks, and each $transaction runs at the
\* isolation level the database defaults to.  The relay holds two mints, a
\* transfer and a burn
InitConcurrent ==
    /\ events = <<>>
    /\ transactions = <<>>
    /\ balances = {}
    /\ snapshots = <<>>
    /\ outbox = <<>>
    /\ runs = <<>>
    /\ timers = <<>>
    /\ rootNtry = [t \in {INTERNAL, INBOUND, OUTBOUND} |-> 0]
    /\ delivered = 0
    /\ faults = 0
    /\ transactionTypes = TransactionTypeRows
    /\ relay = {1, 4, 8, 17}
    /\ pending = 2

SpecConcurrent == InitConcurrent /\ [][Next]_vars


\* ------------------------------------------------------------- observations
\* the Balance rows of an account and token
BalanceRows(accountId, tokenId) ==
    {b \in balances : b.accountId = accountId /\ b.tokenId = tokenId}

\* Balance.amount: the amount of the snapshot the Balance points to
Amount(b) == snapshots[b.snapshotId].amount

\* the sum of the amounts of all Balances of a token
Total(tokenId) ==
    SumSeq([k \in 1..Len(SeqOf({b \in balances : b.tokenId = tokenId})) |->
              Amount(SeqOf({b \in balances : b.tokenId = tokenId})[k])])

EventRows(id) == {k \in DOMAIN events : events[k].id = id}
TransactionRows(id) == {k \in DOMAIN transactions : transactions[k].eventId = id}
SnapshotRows(id) == {k \in DOMAIN snapshots : snapshots[k].eventId = id}

\* the outcome events published for a request
Outcomes(id) == {k \in DOMAIN outbox : /\ outbox[k].kind = KindREGULAR
                                       /\ outbox[k].e[1] = id}
OkOutcomes(id) == {k \in Outcomes(id) : outbox[k].t[2] = "ok"}
ErrorOutcomes(id, message) ==
    {k \in Outcomes(id) : outbox[k].t[2] = "error" /\ outbox[k].content = message}

\* the amounts a request names and the accounts it names
Requested(id) == NostrEvents[id].content.tokens
Type(id) == NostrEvents[id].type
Signer(id) == NostrEvents[id].pubkey
Receiver(id) == NostrEvents[id].receiver

Author(id) == nostrEventToDB(id).author

\* the requested amount of a token, 0 for a token the request does not name
RequestedOf(id, tokenId) ==
    IF tokenId \in DOMAIN Requested(id) THEN Requested(id)[tokenId] ELSE 0

\* for some requested token the sender has no Balance, or one that holds
\* less than the requested amount
LacksFunds(id) ==
    \E t \in DOMAIN Requested(id) :
        \A b \in BalanceRows(Signer(id), t) : Amount(b) < Requested(id)[t]

\* the balance of an account and token was written by request id
Touched(id) == {b \in balances : b.eventId = id}

RECURSIVE ChainEnds(_, _)
\* walking prev_snapshot_id from snapshot sid reaches a root within n steps
ChainEnds(sid, n) ==
    IF sid = Null THEN TRUE
    ELSE IF n = 0 \/ sid \notin DOMAIN snapshots THEN FALSE
    ELSE ChainEnds(snapshots[sid].prevSnapshotId, n - 1)

RECURSIVE ChainDelta(_, _)
\* the sum of delta along the chain of snapshot sid (at most n snapshots)
ChainDelta(sid, n) ==
    IF sid = Null \/ n = 0 \/ sid \notin DOMAIN snapshots THEN 0
    ELSE snapshots[sid].delta + ChainDelta(snapshots[sid].prevSnapshotId, n - 1)

\* ------------------------------------------------------------- claims

\* C1 (idempotency): however often a request event is delivered, there is at
\* most one Event row and at most one Transaction row for it, it is applied
\* by at most one run, it writes at most one snapshot per account and token,
\* and every delivery that follows a delivery that ended applied, rejected or
\* failed is dropped at the lookup, so the balances stay as the first left
\* them.
C1_Idempotency ==
    /\ \A j, k \in DOMAIN events : events[j].id = events[k].id => j = k
    /\ \A j, k \in DOMAIN transactions :
          transactions[j].eventId = transactions[k].eventId => j = k
    /\ \A s1, s2 \in DOMAIN snapshots :
          (/\ snapshots[s1].eventId = snapshots[s2].eventId
           /\ snapshots[s1].accountId = snapshots[s2].accountId
           /\ snapshots[s1].tokenId = snapshots[s2].tokenId) => s1 = s2
    /\ \A i, j \in DOMAIN runs :
          (i < j /\ runs[i].req = runs[j].req) =>
             /\ ~ /\ runs[i].pc = "then" \/ runs[i].end = "applied"
                  /\ runs[j].pc = "then" \/ runs[j].end = "applied"
             /\ (runs[j].root /\ runs[i].end \in {"applied", "rejected", "failed"})
                => /\ runs[j].pc \in {"lookup", "done"}
                   /\ runs[j].end \in {"", "dropped"}

\* a request is applied, changes a balance, and is delivered again and dropped
C1_Witness ==
    \E i, j \in DOMAIN runs :
        /\ i < j /\ runs[i].req = runs[j].req
        /\ runs[i].end = "applied" /\ runs[j].end = "dropped"
        /\ Touched(runs[i].req) # {}

\* C2 (non-negativity): the amount of every Balance and of every
\* BalanceSnapshot is >= 0.
C2_NonNegative ==
    /\ \A b \in balances : Amount(b) >= 0
    /\ \A k \in DOMAIN snapshots : snapshots[k].amount >= 0

\* C3 (conservation, internal): a step that changes the sum of the Balance
\* amounts of some token is a step of the run of an inbound or an outbound
\* request; no step of the run of an internal request, applied, rejected or
\* retried, and no re-announcement changes it.
C3_InternalConserves ==
    [][(\E t \in Range(TokenRows) : Total(t)' # Total(t))
       => \E i \in DOMAIN runs : /\ runs'[i] # runs[i]
                                 /\ Type(runs[i].req) \in {INBOUND, OUTBOUND}]_vars

\* an internal request was applied: it debited one balance and credited another
C3_Witness ==
    \E i \in DOMAIN runs :
        /\ Type(runs[i].req) = INTERNAL /\ runs[i].end = "applied"
        /\ \E s1, s2 \in SnapshotRows(runs[i].req) :
              snapshots[s1].delta < 0 /\ snapshots[s2].delta > 0

\* C4 (conservation, inbound and outbound): the step that applies an inbound
\* request raises the sum of the Balance amounts of every token by the amount
\* the request names for it, the step that applies an outbound request lowers
\* it by that amount, and no other step of such a run changes the sum.
C4_MintBurnSums ==
    [][\A i \in DOMAIN runs :
         (runs'[i] # runs[i] /\ Type(runs[i].req) \in {INBOUND, OUTBOUND})
         => \A t \in Range(TokenRows) :
              Total(t)' = Total(t) +
                 (IF runs[i].pc = "commit" /\ runs'[i].pc = "then"
                  THEN IF Type(runs[i].req) = INBOUND
                       THEN RequestedOf(runs[i].req, t)
                       ELSE 0 - RequestedOf(runs[i].req, t)
                  ELSE 0)]_vars

\* the writes a request with a Transaction row must have made: a debit of the
\* sender and a credit of the receiver for every token of an internal
\* request, a credit of the receiver for every token of an inbound request,
\* debits of the sender only for an outbound request
Complete(id) ==
    LET Has(accountId, t, delta) ==
            \E s \in SnapshotRows(id) : /\ snapshots[s].accountId = accountId
                                        /\ snapshots[s].tokenId = t
                                        /\ snapshots[s].delta = delta
    IN /\ Type(id) = INTERNAL =>
             \A t \in DOMAIN Requested(id) :
                /\ Has(Signer(id), t, 0 - Requested(id)[t])
                /\ Has(Receiver(id), t, Requested(id)[t])
       /\ Type(id) = INBOUND =>
             \A t \in DOMAIN Requested(id) : Has(Receiver(id), t, Requested(id)[t])
       /\ Type(id) = OUTBOUND =>
             \A s \in SnapshotRows(id) :
                /\ snapshots[s].accountId = Signer(id)
                /\ snapshots[s].delta = 0 - RequestedOf(id, snapshots[s].tokenId)

\* C5 (all or nothing): for every request, either its Transaction row is
\* stored together with its Event row, all its snapshots and the Balances
\* they belong to, or no Transaction row, no snapshot and no Balance bears
\* the request's id; a DB transaction that failed left nothing behind.
C5_AllOrNothing ==
    \A id \in EventIds :
        IF TransactionRows(id) # {}
        THEN /\ EventRows(id) # {}
             /\ Complete(id)
             /\ \A s \in SnapshotRows(id) :
                   /\ BalanceRows(snapshots[s].accountId, snapshots[s].tokenId) # {}
                   /\ snapshots[s].transactionId \in TransactionRows(id)
             /\ \A b \in Touched(id) : b.snapshotId \in SnapshotRows(id)
        ELSE /\ SnapshotRows(id) = {}
             /\ Touched(id) = {}

\* one request is applied with a debit and a credit, and the DB transaction
\* of another was rolled back by a failed INSERT
C5_Witness ==
    /\ \E id \in EventIds : Cardinality(SnapshotRows(id)) >= 2
    /\ \E i \in DOMAIN runs : runs[i].code = "P2010" /\ runs[i].pc = "done"

\* the delta request id gives a snapshot of account and token
DeltaOf(id, accountId, tokenId) ==
    IF Type(id) = INBOUND \/ (Type(id) = INTERNAL /\ accountId # Signer(id))
    THEN RequestedOf(id, tokenId)
    ELSE 0 - RequestedOf(id, tokenId)

\* C6 (snapshot chain): from the snapshot of every Balance prev_snapshot_id
\* leads to a root, and the deltas along the chain add up to the Balance's
\* amount; every snapshot with a predecessor belongs to the account and token
\* of its predecessor, which no other snapshot has as predecessor, its delta
\* is the amount of its request, negative for a debit, and its amount is the
\* predecessor's amount plus its delta; a root has amount = delta.
C6_SnapshotChain ==
    /\ \A b \in balances :
          /\ ChainEnds(b.snapshotId, Len(snapshots))
          /\ ChainDelta(b.snapshotId, Len(snapshots)) = Amount(b)
    /\ \A k \in DOMAIN snapshots :
          LET s == snapshots[k] IN
          /\ s.delta = DeltaOf(s.eventId, s.accountId, s.tokenId)
          /\ IF s.prevSnapshotId = Null THEN s.amount = s.delta
             ELSE /\ s.prevSnapshotId \in 1..(k - 1)
                  /\ snapshots[s.prevSnapshotId].accountId = s.accountId
                  /\ snapshots[s.prevSnapshotId].tokenId = s.tokenId
                  /\ s.amount = snapshots[s.prevSnapshotId].amount + s.delta
                  /\ \A j \in DOMAIN snapshots :
                        snapshots[j].prevSnapshotId = s.prevSnapshotId => j = k

\* a Balance whose chain holds three snapshots, and a debit and a credit
\* that each follow a former snapshot
C6_Witness ==
    /\ \E b \in balances :
          LET s == snapshots[b.snapshotId] IN
          /\ s.prevSnapshotId # Null
          /\ snapshots[s.prevSnapshotId].prevSnapshotId # Null
    /\ \E j, k \in DOMAIN snapshots :
          /\ snapshots[j].delta < 0 /\ snapshots[j].prevSnapshotId # Null
          /\ snapshots[k].delta > 0 /\ snapshots[k].prevSnapshotId # Null

\* C7 (linkage): every Transaction row refers to exactly one stored Event row
\* and no two Transactions refer to the same Event; every snapshot carries a
\* Transaction that is stored and whose Event is the snapshot's event, and
\* every Balance carries the event of the snapshot it points to.
C7_Linkage ==
    /\ \A k \in DOMAIN transactions :
          /\ Cardinality(EventRows(transactions[k].eventId)) = 1
          /\ TransactionRows(transactions[k].eventId) = {k}
    /\ \A k \in DOMAIN snapshots :
          /\ snapshots[k].transactionId \in DOMAIN transactions
          /\ transactions[snapshots[k].transactionId].eventId = snapshots[k].eventId
    /\ \A b \in balances :
          /\ b.snapshotId \in DOMAIN snapshots
          /\ snapshots[b.snapshotId].eventId = b.eventId
          /\ snapshots[b.snapshotId].accountId = b.accountId
          /\ snapshots[b.snapshotId].tokenId = b.tokenId

\* a second request has debited one Balance and credited an existing one
C7_Witness ==
    \E id \in EventIds :
        \E s1, s2 \in SnapshotRows(id) :
            /\ snapshots[s1].delta < 0 /\ snapshots[s1].prevSnapshotId # Null
            /\ snapshots[s2].accountId # snapshots[s1].accountId
            /\ snapshots[s2].prevSnapshotId # Null
            /\ snapshots[snapshots[s2].prevSnapshotId].transactionId
                  # snapshots[s2].transactionId

\* an inbound or outbound request whose author is not the minter
Unauthorised(id) == Type(id) \in {INBOUND, OUTBOUND} /\ Author(id) # MINTER

\* C8 (mint and burn authorisation): an inbound or outbound request whose
\* author is not the minter has no Transaction row, no snapshot, no Balance
\* and no ok event, whatever its handler and its retries do; once its run is
\* past the check of the author its Event row is stored and the one outcome
\* published for it is the error "Author cannot mint this token" (inbound)
\* or "Author cannot burn this token" (outbound).
C8_Authorisation ==
    \A id \in EventIds :
        Unauthorised(id) =>
            /\ TransactionRows(id) = {}
            /\ SnapshotRows(id) = {}
            /\ Touched(id) = {}
            /\ OkOutcomes(id) = {}
            /\ \A i \in DOMAIN runs :
                  (runs[i].req = id /\ runs[i].pc \notin {"lookup", "validate"}
                   /\ runs[i].end # "dropped")
                  => /\ Cardinality(EventRows(id)) = 1
                     /\ Cardinality(Outcomes(id)) = 1
                     /\ Cardinality(ErrorOutcomes(id,
                           IF Type(id) = INBOUND
                           THEN "Author cannot mint this token"
                           ELSE "Author cannot burn this token")) = 1

\* a non-minter asked to burn while the account holds a Balance, the DB
\* transaction of the request has failed and its retry has ended
C8_Witness ==
    \E i, j \in DOMAIN runs :
        /\ Unauthorised(runs[i].req) /\ Type(runs[i].req) = OUTBOUND
        /\ BalanceRows(Signer(runs[i].req), "T1") # {}
        /\ runs[i].end = "retried"
        /\ j > i /\ runs[j].req = runs[i].req /\ runs[j].pc = "done"

\* C9 (insufficient funds, internal): an internal request whose sender lacks
\* the funds of some requested token never reaches the writes of its DB
\* transaction; its run ends rejected, with the Event row stored, "Not enough
\* funds" as its only outcome, no Transaction, no snapshot, and no retry.
C9_InternalFunds ==
    \A i \in DOMAIN runs :
        LET id == runs[i].req IN
        Type(id) = INTERNAL =>
            /\ runs[i].pc = "commit" => ~LacksFunds(id)
            /\ (runs[i].code = "P2025" /\ runs[i].pc = "done") =>
                  /\ runs[i].end = "rejected"
                  /\ Cardinality(EventRows(id)) = 1
                  /\ Cardinality(Outcomes(id)) = 1
                  /\ Cardinality(ErrorOutcomes(id, "Not enough funds")) = 1
                  /\ TransactionRows(id) = {} /\ SnapshotRows(id) = {}
                  /\ \A j \in DOMAIN runs : (j > i /\ runs[j].req = id) => runs[j].root

\* C10 (insufficient funds, outbound): an outbound request of the minter
\* whose sender lacks the funds of some requested token never reaches the
\* writes of its DB transaction; it gets no Transaction, no snapshot and no
\* ok event, and once its run has ended its Event row is stored and "Not
\* enough funds" is its only outcome.
C10_OutboundFunds ==
    \A i \in DOMAIN runs :
        LET id == runs[i].req IN
        (Type(id) = OUTBOUND /\ Author(id) = MINTER) =>
            /\ runs[i].pc = "commit" => ~LacksFunds(id)
            /\ (runs[i].code = "P2025" /\ runs[i].pc = "done") =>
                  /\ Cardinality(EventRows(id)) = 1
                  /\ Cardinality(Outcomes(id)) = 1
                  /\ Cardinality(ErrorOutcomes(id, "Not enough funds")) = 1
                  /\ TransactionRows(id) = {} /\ SnapshotRows(id) = {}

\* some amount the request names is zero or negative
NonPositive(id) == \E t \in DOMAIN Requested(id) : Requested(id)[t] <= 0

\* C11 (amount sanity): a request that names a zero or negative amount gets
\* no Transaction, no snapshot and no Balance, and once a run of it has got
\* past the lookup and ended, its Event row is stored and the one outcome
\* published for it is the error "Token amount must be a positive number".
C11_AmountSanity ==
    \A id \in EventIds :
        NonPositive(id) =>
            /\ TransactionRows(id) = {}
            /\ SnapshotRows(id) = {}
            /\ Touched(id) = {}
            /\ \A i \in DOMAIN runs :
                  (runs[i].req = id /\ runs[i].pc = "done"
                   /\ runs[i].end # "dropped")
                  => /\ Cardinality(EventRows(id)) = 1
                     /\ Cardinality(Outcomes(id)) = 1
                     /\ Cardinality(ErrorOutcomes(id,
                           "Token amount must be a positive number")) = 1

\* the request has reached a terminal outcome other than the duplicate drop:
\* a run of it was applied, rejected or failed after its retries, or it was
\* refused as a mint or burn of an author who is not the minter
Terminal(id) ==
    \E i \in DOMAIN runs :
        /\ runs[i].req = id
        /\ \/ runs[i].end \in {"applied", "rejected", "failed"}
           \/ /\ Unauthorised(id)
              /\ runs[i].pc \notin {"lookup", "validate"}
              /\ runs[i].end # "dropped"

\* C12 (terminal outcomes): for every request that has reached a terminal
\* outcome, exactly one Event row with its id is stored and, over all its
\* attempts and retries, exactly one outcome event has been published.
C12_TerminalOutcomes ==
    \A id \in EventIds :
        Terminal(id) => /\ Cardinality(EventRows(id)) = 1
                        /\ Cardinality(Outcomes(id)) = 1

\* one request was applied and another failed after its retries, each with
\* its one outcome
C12_Witness ==
    \E i, j \in DOMAIN runs :
        /\ runs[i].end = "applied" /\ Cardinality(OkOutcomes(runs[i].req)) = 1
        /\ runs[j].end = "failed" /\ ~runs[j].root
        /\ Cardinality(ErrorOutcomes(runs[j].req, "Network Error")) = 1

\* C13 (silent duplicate drop): the handler of a request whose Event row is
\* stored when it looks the request up ends at once as a drop, and its step
\* publishes nothing, schedules no re-announcement and leaves the Events,
\* Transactions, Balances and BalanceSnapshots as they are.
C13_SilentDrop ==
    [][\A i \in DOMAIN runs :
         (/\ runs[i].pc = "lookup"
          /\ EventRows(runs[i].req) # {}
          /\ runs'[i] # runs[i])
         => /\ runs'[i].pc = "done" /\ runs'[i].end = "dropped"
            /\ UNCHANGED <<events, transactions, balances, snapshots, outbox,
                           timers>>]_vars

\* a request was rejected, which stored its Event, and was delivered again
\* and dropped
C13_Witness ==
    \E i, j \in DOMAIN runs :
        /\ i < j /\ runs[i].req = runs[j].req
        /\ runs[i].end = "rejected" /\ runs[j].end = "dropped"
        /\ TransactionRows(runs[i].req) = {}
        /\ outbox # <<>>

\* the DB transaction of run i failed with a fault other than "Not enough
\* funds", in a request the variant's check of the author lets through
Transient(i) ==
    /\ runs[i].code \notin {"", "P2025"}
    /\ ~Unauthorised(runs[i].req)

\* C14 (bounded retry): a run whose DB transaction failed with a transient
\* fault ends either with the request handed to a next attempt, whose
\* counter is at most MAX_RETRIES, or, at the bound, with the request
\* failed: its Event row stored, "Network Error" as its one outcome, and no
\* Balance, snapshot or Transaction of the request.
C14_BoundedRetry ==
    \A i \in DOMAIN runs :
        (Transient(i) /\ runs[i].pc = "done") =>
            LET id == runs[i].req IN
            /\ runs[i].end \in {"retried", "failed"}
            /\ runs[i].end = "retried" =>
                  \E j \in DOMAIN runs :
                      /\ j > i /\ runs[j].req = id /\ ~runs[j].root
                      /\ runs[j].ntry <= MAX_RETRIES
            /\ runs[i].end = "failed" =>
                  /\ Cardinality(EventRows(id)) = 1
                  /\ Cardinality(Outcomes(id)) = 1
                  /\ Cardinality(ErrorOutcomes(id, "Network Error")) = 1
                  /\ TransactionRows(id) = {} /\ SnapshotRows(id) = {}
                  /\ Touched(id) = {}

\* the accounts the requests name
AccountIds == {Signer(id) : id \in EventIds} \cup {Receiver(id) : id \in EventIds}

\* the amount an account holds of a token, 0 when it has no Balance
Held(accountId, tokenId) ==
    IF BalanceRows(accountId, tokenId) = {} THEN 0
    ELSE Amount(CHOOSE b \in BalanceRows(accountId, tokenId) : TRUE)

\* C15 (internal transfer result): the step that commits an internal request
\* whose sender is not its receiver and holds every requested amount lowers
\* the sender's Balance of each requested token by the requested amount,
\* raises the receiver's by it, creating the receiver's Balance where there
\* was none, and changes or creates no other Balance.
C15_TransferResult ==
    [][\A i \in DOMAIN runs :
         LET id == runs[i].req IN
         (/\ runs[i].pc = "commit" /\ runs'[i].pc = "then"
          /\ Type(id) = INTERNAL /\ Signer(id) # Receiver(id)
          /\ ~LacksFunds(id))
         => \A a \in AccountIds, t \in Range(TokenRows) :
               /\ Held(a, t)' = Held(a, t) +
                     (IF a = Signer(id) THEN 0 - RequestedOf(id, t)
                      ELSE IF a = Receiver(id) THEN RequestedOf(id, t)
                      ELSE 0)
               /\ Cardinality(BalanceRows(a, t)') =
                     (IF a = Receiver(id) /\ t \in DOMAIN Requested(id)
                      THEN 1 ELSE Cardinality(BalanceRows(a, t)))]_vars

\* one internal request has created the receiver's Balance and a later one
\* has credited it
C15_Witness ==
    \E s1, s2 \in DOMAIN snapshots :
        /\ Type(snapshots[s1].eventId) = INTERNAL
        /\ Type(snapshots[s2].eventId) = INTERNAL
        /\ snapshots[s1].accountId = Receiver(snapshots[s1].eventId)
        /\ snapshots[s1].prevSnapshotId = Null
        /\ snapshots[s2].prevSnapshotId = s1
        /\ snapshots[s2].delta > 0
        /\ \E b \in balances : b.snapshotId = s2

\* C16 (mint result): the step that commits an inbound request of the minter
\* adds the requested amount of each token to the receiver's Balance, or
\* creates that Balance with one snapshot that has no predecessor and
\* amount = delta = the requested amount, and changes or creates no other
\* Balance; the step that follows publishes the one inbound-transaction-ok
\* of the request, and no step publishes a second.
C16_MintResult ==
    [][\A i \in DOMAIN runs :
         LET id == runs[i].req IN
         (Type(id) = INBOUND /\ Author(id) = MINTER) =>
           /\ (runs[i].pc = "commit" /\ runs'[i].pc = "then") =>
                \A a \in AccountIds, t \in Range(TokenRows) :
                   /\ Held(a, t)' = Held(a, t) +
                         (IF a = Receiver(id) THEN RequestedOf(id, t) ELSE 0)
                   /\ Cardinality(BalanceRows(a, t)') =
                         (IF a = Receiver(id) /\ t \in DOMAIN Requested(id)
                          THEN 1 ELSE Cardinality(BalanceRows(a, t)))
                   /\ (/\ a = Receiver(id) /\ t \in DOMAIN Requested(id)
                       /\ BalanceRows(a, t) = {})
                      => \E k \in SnapshotRows(id)' :
                            /\ \A j \in SnapshotRows(id)' :
                                  (/\ snapshots'[j].accountId = a
                                   /\ snapshots'[j].tokenId = t) => j = k
                            /\ snapshots'[k].accountId = a
                            /\ snapshots'[k].tokenId = t
                            /\ snapshots'[k].prevSnapshotId = Null
                            /\ snapshots'[k].amount = Requested(id)[t]
                            /\ snapshots'[k].delta = Requested(id)[t]
           /\ (runs[i].pc = "then" /\ runs'[i].pc = "done") =>
                /\ Outcomes(id) = {}
                /\ Cardinality(OkOutcomes(id)') = 1
           /\ Cardinality(Outcomes(id)') <= 1]_vars

\* one mint has created a Balance and another has credited a Balance that
\* was there, and each has its ok event
C16_Witness ==
    \E s1, s2 \in DOMAIN snapshots :
        /\ Type(snapshots[s1].eventId) = INBOUND
        /\ Type(snapshots[s2].eventId) = INBOUND
        /\ snapshots[s1].prevSnapshotId = Null
        /\ snapshots[s2].prevSnapshotId # Null
        /\ Cardinality(OkOutcomes(snapshots[s1].eventId)) = 1
        /\ Cardinality(OkOutcomes(snapshots[s2].eventId)) = 1

\* the balance announcements among the events news that name the account and
\* token of Balance b
AnnouncementsOf(news, b) ==
    {k \in DOMAIN news :
        /\ news[k].kind = KindPARAMETRIZED_REPLACEABLE
        /\ news[k].d = <<"balance", b.tokenId, b.accountId>>}

\* C17 (post-commit publication): the step that follows the commit of a
\* request publishes one ok event of the request and, for each Balance the
\* request debited, credited or created, one balance announcement, whose
\* amount is the amount the request committed, and nothing else.
C17_PostCommit ==
    [][\A i \in DOMAIN runs :
         (runs[i].pc = "then" /\ runs'[i] # runs[i]) =>
            LET id == runs[i].req
                news == SubSeq(outbox', Len(outbox) + 1, Len(outbox'))
            IN /\ SubSeq(outbox', 1, Len(outbox)) = outbox
               /\ Len(news) = 1 + Cardinality(Touched(id))
               /\ Cardinality({k \in DOMAIN news :
                      /\ news[k].kind = KindREGULAR
                      /\ news[k].e[1] = id
                      /\ news[k].t = <<Type(id), "ok">>}) = 1
               /\ \A b \in Touched(id) :
                     /\ Cardinality(AnnouncementsOf(news, b)) = 1
                     /\ \A k \in AnnouncementsOf(news, b) :
                           /\ news[k].amount = Amount(b)
                           /\ news[k].e = <<id>>]_vars

\* an internal request was applied and the sender's and the receiver's
\* Balance were announced with its id
C17_Witness ==
    \E i \in DOMAIN runs :
        LET id == runs[i].req IN
        /\ runs[i].end = "applied" /\ Type(id) = INTERNAL
        /\ Cardinality(Touched(id)) = 2
        /\ \A b \in Touched(id) :
              \E k \in AnnouncementsOf(outbox, b) : outbox[k].e = <<id>>

\* the applied requests that changed or created the Balance of an account
\* and token
AppliedOn(accountId, tokenId) ==
    {id \in EventIds :
        /\ \E i \in DOMAIN runs : runs[i].req = id /\ runs[i].end = "applied"
        /\ \E s \in SnapshotRows(id) : /\ snapshots[s].accountId = accountId
                                        /\ snapshots[s].tokenId = tokenId}

\* the balance announcements published for an account and token, and the
\* re-announcements of them that are scheduled
Announced(accountId, tokenId) ==
    {k \in DOMAIN outbox :
        /\ outbox[k].kind = KindPARAMETRIZED_REPLACEABLE
        /\ outbox[k].d = <<"balance", tokenId, accountId>>}
Scheduled(accountId, tokenId) ==
    {k \in DOMAIN timers : /\ accountId \in timers[k].accounts
                           /\ tokenId \in timers[k].tokens}

\* C18 (deferred re-announcement): every applied request, of any variant,
\* gives each Balance it changed or created a second balance announcement:
\* once a request is applied, the second announcement is scheduled or has
\* been published, so that the announcements published and scheduled for an
\* account and token are at least two per applied request.
C18_Reannouncement ==
    \A a \in AccountIds, t \in Range(TokenRows) :
        Cardinality(Announced(a, t)) + Cardinality(Scheduled(a, t))
            >= 2 * Cardinality(AppliedOn(a, t))

\* the reason the pre-validation is to reject a request with, "" for a
\* request it is to let through
Expected(id) ==
    IF ~NostrEvents[id].content.parses THEN "Unparsable content"
    ELSE IF \E t \in DOMAIN Requested(id) : t \notin Range(TokenRows)
    THEN "Token not supported"
    ELSE IF Type(id) \notin transactionTypes
    THEN "Transaction not supported"
    ELSE ""

\* the requests the pre-validation is to reject (their author resolves)
PreRejected == {id \in EventIds : Expected(id) # ""
                                  /\ NostrEvents[id].delegation # BadDelegation}

\* C19 (pre-validation rejections): a request with unparsable content, with
\* a token that has no row, or of a variant whose transaction type has no
\* row never runs the body of its variant and gets no Transaction, snapshot
\* or Balance; once a run of it has got past the lookup and ended it is
\* rejected, one Event row is stored for it (with an empty payload when the
\* content is unparsable) and its one outcome is the error "Unparsable
\* content", "Token not supported" or "Transaction not supported"; and no
\* step of its runs changes the Transactions, Balances or snapshots.
C19_PreValidation ==
    /\ [](\A id \in PreRejected :
            /\ TransactionRows(id) = {} /\ SnapshotRows(id) = {}
            /\ Touched(id) = {}
            /\ \A i \in DOMAIN runs :
                  runs[i].req = id =>
                     /\ runs[i].pc \in {"lookup", "validate", "done"}
                     /\ (runs[i].pc = "done" /\ runs[i].end # "dropped") =>
                           /\ runs[i].end = "rejected"
                           /\ Cardinality(EventRows(id)) = 1
                           /\ Cardinality(Outcomes(id)) = 1
                           /\ Cardinality(ErrorOutcomes(id, Expected(id))) = 1
                           /\ \A k \in EventRows(id) :
                                 ~NostrEvents[id].content.parses
                                 => /\ ~events[k].payload.undefined
                                    /\ events[k].payload.tokens = <<>>)
    /\ [][\A i \in DOMAIN runs :
            (runs[i].req \in PreRejected /\ runs'[i] # runs[i])
            => UNCHANGED <<transactions, balances, snapshots>>]_vars

\* the three rejections have happened, each with its error and its Event row
C19_Witness ==
    \E u, k, y \in PreRejected :
        /\ ErrorOutcomes(u, "Unparsable content") # {} /\ EventRows(u) # {}
        /\ ErrorOutcomes(k, "Token not supported") # {} /\ EventRows(k) # {}
        /\ ErrorOutcomes(y, "Transaction not supported") # {}
        /\ EventRows(y) # {}

\* C20 (bad delegation): a request whose delegation tag names no delegator
\* that resolves changes no Balance, and a run of it that has got past the
\* lookup and ended has stored its Event row and published its one outcome,
\* the error "Bad delegation" with the signer as the sender.
C20_BadDelegation ==
    \A id \in EventIds :
        NostrEvents[id].delegation = BadDelegation =>
            /\ TransactionRows(id) = {} /\ SnapshotRows(id) = {}
            /\ Touched(id) = {}
            /\ \A i \in DOMAIN runs :
                  (runs[i].req = id /\ runs[i].pc = "done"
                   /\ runs[i].end # "dropped")
                  => /\ Cardinality(EventRows(id)) = 1
                     /\ Cardinality(Outcomes(id)) = 1
                     /\ \E k \in ErrorOutcomes(id, "Bad delegation") :
                           outbox[k].p = Signer(id)

\* C21 (sender is the author): the account an applied internal or outbound
\* request debits, and the first p tag of its ok event, is the author of the
\* request event: the delegator of a request signed by a delegate, else the
\* signer.
C21_SenderIsAuthor ==
    \A id \in EventIds :
        Type(id) \in {INTERNAL, OUTBOUND}
        => /\ \A k \in SnapshotRows(id) :
                 snapshots[k].delta < 0 => snapshots[k].accountId = Author(id)
           /\ \A k \in OkOutcomes(id) : outbox[k].p = Author(id)

\* the reason of the earliest check a request violates, in the order content
\* parse, authorship, amount sanity, token existence, transaction-type
\* existence, and then the variant's authorisation; "" when it violates none
\* of them
EarliestViolated(id) ==
    IF ~NostrEvents[id].content.parses THEN "Unparsable content"
    ELSE IF NostrEvents[id].delegation = BadDelegation THEN "Bad delegation"
    ELSE IF NonPositive(id) THEN "Token amount must be a positive number"
    ELSE IF \E t \in DOMAIN Requested(id) : t \notin Range(TokenRows)
    THEN "Token not supported"
    ELSE IF Type(id) \notin transactionTypes THEN "Transaction not supported"
    ELSE IF Unauthorised(id) THEN MinterMessage(Type(id))
    ELSE ""

\* C22 (fixed check order): every outcome published for a request that
\* violates a check is the error whose reason is that of the earliest check
\* it violates, and no request gets a second rejection.
C22_CheckOrder ==
    \A id \in EventIds :
        /\ EarliestViolated(id) # ""
           => Outcomes(id) = ErrorOutcomes(id, EarliestViolated(id))
        /\ Cardinality({k \in Outcomes(id) : outbox[k].t[2] = "error"}) <= 1

\* the sum of the delta of every snapshot committed for an account and token
Committed(accountId, tokenId) ==
    LET rows == SeqOf({k \in DOMAIN snapshots :
                         /\ snapshots[k].accountId = accountId
                         /\ snapshots[k].tokenId = tokenId})
    IN SumSeq([j \in DOMAIN rows |-> snapshots[rows[j]].delta])

\* C23 (serialisable mutation phase): however the handlers of distinct
\* requests interleave, every Balance holds what the committed requests, run
\* one after another in some order, leave in it: the sum of the deltas
\* committed for its account and token; no committed debit or credit is lost
\* and none is computed from an amount another request has replaced.
C23_Serialisable ==
    \A b \in balances : Amount(b) = Committed(b.accountId, b.tokenId)

\* the runs whose DB transaction failed on the unique key of balances: the
\* INSERT of a Balance another request created first
LostRace == {i \in DOMAIN runs : runs[i].code = "P2010"}

\* C24 (first-credit race): when two requests credit an account and token
\* that has no Balance, one Balance row comes to exist; the request whose
\* INSERT fails on the unique key is retried, and once none of its runs is
\* pending it is applied, having credited the row the other created: the
\* snapshot it wrote follows a former snapshot and adds its amount to it.
C24_FirstCreditRace ==
    /\ \A a \in AccountIds, t \in Range(TokenRows) :
           Cardinality(BalanceRows(a, t)) <= 1
    /\ \A i \in LostRace :
           LET id == runs[i].req IN
           /\ runs[i].pc = "done" => runs[i].end = "retried"
           /\ (\A j \in Pending : runs[j].req # id) /\ runs[i].pc = "done"
              => /\ TransactionRows(id) # {}
                 /\ \E k \in SnapshotRows(id) :
                       /\ snapshots[k].accountId = Receiver(id)
                       /\ snapshots[k].prevSnapshotId # Null
                       /\ snapshots[k].amount =
                            snapshots[snapshots[k].prevSnapshotId].amount
                              + snapshots[k].delta

\* the snapshots of an account and token
History(accountId, tokenId) ==
    {k \in DOMAIN snapshots : /\ snapshots[k].accountId = accountId
                              /\ snapshots[k].tokenId = tokenId}

\* the snapshots that follow snapshot k
Successors(k) == {j \in DOMAIN snapshots : snapshots[j].prevSnapshotId = k}

\* C25 (linear snapshot history): however the handlers interleave, the
\* snapshots of an account and token form one chain: each is followed by at
\* most one other, which was committed after it and is of the same account
\* and token; exactly one is followed by none, and it is the one the Balance
\* points to.
C25_LinearHistory ==
    /\ \A k \in DOMAIN snapshots :
           /\ Cardinality(Successors(k)) <= 1
           /\ \A j \in Successors(k) :
                 /\ j > k
                 /\ snapshots[j].accountId = snapshots[k].accountId
                 /\ snapshots[j].tokenId = snapshots[k].tokenId
    /\ \A b \in balances :
           {k \in History(b.accountId, b.tokenId) : Successors(k) = {}}
               = {b.snapshotId}

\* the runs that re-enter a request as a retry
Retries == {i \in DOMAIN runs : ~runs[i].root}

\* C26 (no Event between attempts): when a request is entered again as a
\* retry of a failed DB transaction, no Event row with its id is stored, so
\* the lookup of the retry does not drop it.
C26_NoEventBetweenAttempts ==
    \A i \in Retries :
        /\ runs[i].pc = "lookup" => EventRows(runs[i].req) = {}
        /\ runs[i].end # "dropped"

\* the ways a handler run ends for good: the request was dropped at the
\* lookup, or it was applied, rejected or failed ("retried" hands the request
\* to the run of the retry)
Settled(i) == runs[i].pc = "done" /\ runs[i].end # "retried"

\* C27 (every request reaches a terminal state): a handler run of any of the
\* three variants that has ended for good has dropped the request at the
\* lookup or has left an Event row of the request stored; and a run that ended
\* by retrying is followed by the run of its retry.
C27_TerminalState ==
    \A i \in DOMAIN runs :
        /\ Settled(i)
           => runs[i].end = "dropped" \/ EventRows(runs[i].req) # {}
        /\ runs[i].end = "retried"
           => \E j \in DOMAIN runs : /\ j > i
                                      /\ ~runs[j].root
                                      /\ runs[j].req = runs[i].req

\* the e tags a request carries
Carried(id) == Range(NostrEvents[id].etags)

\* C28 (carried e tags): the ok event of an applied request has, besides the
\* e tag that names the request, every e tag the request carried.
C28_CarriedTags ==
    \A id \in EventIds :
        \A k \in OkOutcomes(id) :
            /\ outbox[k].e[1] = id
            /\ Carried(id) \subseteq Range(outbox[k].e)

\* a table that is a sequence of rows keeps the rows it has
Kept(old, new) == /\ Len(new) >= Len(old)
                  /\ SubSeq(new, 1, Len(old)) = old

\* C29 (append-only history): no step of a handler or of a timer deletes or
\* changes a stored Event, Transaction or snapshot, and none deletes a
\* Balance: the tables only grow, and a Balance row keeps its account and
\* token, a step changing only its snapshot_id and event_id.
C29_AppendOnly ==
    [][ /\ Kept(events, events')
        /\ Kept(transactions, transactions')
        /\ Kept(snapshots, snapshots')
        /\ Cardinality(balances') >= Cardinality(balances)
        /\ \A b \in balances :
              \E c \in balances' : /\ c.accountId = b.accountId
                                   /\ c.tokenId = b.tokenId ]_vars

\* a Balance that was created by one request and updated by another, with the
\* Events and Transactions of both stored
C29_Witness ==
    /\ Len(events) >= 2 /\ Len(transactions) >= 2
    /\ \E b \in balances :
          /\ snapshots[b.snapshotId].prevSnapshotId # Null
          /\ snapshots[snapshots[b.snapshotId].prevSnapshotId].eventId
                # b.eventId

\* C30 (concurrent duplicates): when a request is delivered again while its
\* handler is pending, so that two runs pass the lookup before either stores
\* the Event, there is at most one Event row and one Transaction row for it,
\* each Balance is changed by it at most once, and at most one outcome event
\* is published for it.
C30_ConcurrentDuplicates ==
    /\ \A j, k \in DOMAIN events : events[j].id = events[k].id => j = k
    /\ \A j, k \in DOMAIN transactions :
           transactions[j].eventId = transactions[k].eventId => j = k
    /\ \A j, k \in DOMAIN outbox :
           /\ outbox[j].kind = KindREGULAR /\ outbox[k].kind = KindREGULAR
           /\ outbox[j].e[1] = outbox[k].e[1]
           => j = k
    /\ \A j, k \in DOMAIN snapshots :
           /\ snapshots[j].eventId = snapshots[k].eventId
           /\ snapshots[j].accountId = snapshots[k].accountId
           /\ snapshots[j].tokenId = snapshots[k].tokenId
           => j = k

\* two deliveries of a request whose runs both passed the lookup: one is
\* applied, the DB transaction of the other failed on the Event's primary
\* key, and its retry was dropped at the lookup
C30_Witness ==
    \E i, j \in DOMAIN runs :
        /\ runs[i].root /\ runs[j].root /\ i # j
        /\ runs[i].req = runs[j].req
        /\ runs[i].end = "applied"
        /\ runs[j].code = "P2002" /\ runs[j].end = "retried"
        /\ \E k \in Retries : /\ runs[k].req = runs[j].req
                              /\ runs[k].end = "dropped"
        /\ Cardinality(Outcomes(runs[i].req)) = 1

\* the runs that retry request id
RetriesOf(id) == {j \in Retries : runs[j].req = id}

\* C31 (retry budget is per request): the transient failures of other
\* requests take nothing from the retries of a request: the first retry of a
\* request runs with ntry = 1, and a request that is failed with "Network
\* Error" has been retried MAX_RETRIES times.
C31_RetryBudget ==
    /\ \A j \in Retries : runs[j].ntry >= 1
    /\ \A i \in DOMAIN runs :
          /\ runs[i].root /\ runs[i].end = "retried"
             => \E j \in RetriesOf(runs[i].req) : runs[j].ntry = 1
          /\ runs[i].end = "failed"
             => Cardinality(RetriesOf(runs[i].req)) = MAX_RETRIES

\* C32 (ok and error are exclusive): however deliveries, retries and faults
\* interleave, a request for which an error event was published has no
\* Transaction and no ok event: it is not applied before or after the error.
C32_Exclusive ==
    \A k \in DOMAIN outbox :
        /\ outbox[k].kind = KindREGULAR
        /\ outbox[k].t[2] = "error"
        => /\ TransactionRows(outbox[k].e[1]) = {}
           /\ OkOutcomes(outbox[k].e[1]) = {}

\* a request with an error published, a run of which had read sufficient
\* funds and then failed to commit on the Event's primary key
C32_Witness ==
    \E i \in DOMAIN runs :
        /\ runs[i].code = "P2002"
        /\ runs[i].read.sender # <<>>
        /\ ErrorOutcomes(runs[i].req, "Not enough funds") # {}

\* the ok events and the balance announcements in the outbox
Successes == {k \in DOMAIN outbox :
                \/ outbox[k].kind = KindPARAMETRIZED_REPLACEABLE
                \/ outbox[k].kind = KindREGULAR /\ outbox[k].t[2] = "ok"}

\* C33 (ok only after commit): every ok event and every balance announcement
\* in the outbox names a request whose Event row and Transaction row are
\* committed; none is published for a request whose DB transaction is open
\* or was rolled back.
C33_OkAfterCommit ==
    \A k \in Successes :
        /\ EventRows(outbox[k].e[1]) # {}
        /\ TransactionRows(outbox[k].e[1]) # {}

\* a request whose DB transaction was rolled back once and committed by the
\* retry, with its ok event and announcements published, and a request whose
\* DB transaction is open
C33_Witness ==
    /\ \E i, j \in DOMAIN runs :
          /\ runs[i].req = runs[j].req
          /\ runs[i].code = "P1001" /\ runs[i].end = "retried"
          /\ runs[j].end = "applied"
          /\ OkOutcomes(runs[j].req) # {}
          /\ \E k \in Successes : /\ outbox[k].kind = KindPARAMETRIZED_REPLACEABLE
                                  /\ outbox[k].e[1] = runs[j].req
    /\ \E i \in DOMAIN runs : /\ runs[i].pc = "commit"
                              /\ Outcomes(runs[i].req) = {}

\* the events a step hands to the outbox
Published == SubSeq(outbox', Len(outbox) + 1, Len(outbox'))

IsOk(e) == e.kind = KindREGULAR /\ e.t[2] = "ok"
IsAnnouncement(e) == e.kind = KindPARAMETRIZED_REPLACEABLE

\* C34 (publication order): the step that hands over the ok event of a
\* request hands it over first and its balance announcements, all of them, in
\* the same step behind it; a re-announcement is armed only in that step, so
\* that it fires after them; and balance announcements that come without an
\* ok event are those of a timer that fires.
C34_PublicationOrder ==
    [][ /\ (\E k \in DOMAIN Published : IsOk(Published[k]))
           => /\ IsOk(Published[1])
              /\ \A k \in DOMAIN Published \ {1} :
                    /\ IsAnnouncement(Published[k])
                    /\ Published[k].e = <<Published[1].e[1]>>
        /\ Len(timers') > Len(timers)
           => Published # <<>> /\ IsOk(Published[1]) /\ Len(Published) > 1
        /\ Published # <<>> /\ IsAnnouncement(Published[1])
           => Len(timers') < Len(timers) ]_vars

\* an applied transfer: its ok event, behind it its two announcements, and
\* behind them the two re-announcements of its timer
C34_Witness ==
    \E k \in DOMAIN outbox :
        /\ k + 4 <= Len(outbox)
        /\ IsOk(outbox[k]) /\ outbox[k].t[1] = INTERNAL
        /\ \A j \in k + 1 .. k + 4 :
              IsAnnouncement(outbox[j]) /\ outbox[j].e = <<outbox[k].e[1]>>
        /\ timers = <<>>

\* the Balance rows a timer queries again
Requeried(timer) == {b \in balances : /\ b.accountId \in timer.accounts
                                      /\ b.tokenId \in timer.tokens}

\* C35 (a re-announcement carries the current amount): a step in which a
\* timer fires changes no Event, Transaction, Balance or snapshot, and hands
\* to the outbox one balance announcement for each Balance row of the
\* accounts and tokens of the timer, with the amount and the event id the row
\* holds in that step, whichever request wrote them.
C35_CurrentAmount ==
    [][ Len(timers') < Len(timers)
        => /\ UNCHANGED <<events, transactions, balances, snapshots>>
           /\ \E n \in DOMAIN timers :
                 /\ Len(Published) = Cardinality(Requeried(timers[n]))
                 /\ \A b \in Requeried(timers[n]) :
                       \E k \in DOMAIN Published :
                           /\ IsAnnouncement(Published[k])
                           /\ Published[k].p = b.accountId
                           /\ Published[k].d = <<"balance", b.tokenId,
                                                  b.accountId>>
                           /\ Published[k].amount = Amount(b)
                           /\ Published[k].e = <<b.eventId>> ]_vars

\* the timer of a request has fired after another request changed the
\* Balance: three announcements of an account name a request that makes two
\* of them itself
C35_Witness ==
    \E id \in EventIds, a \in AccountIds :
        /\ Cardinality(TransactionRows(id)) = 1
        /\ Cardinality({k \in DOMAIN outbox :
                          /\ IsAnnouncement(outbox[k])
                          /\ outbox[k].e = <<id>>
                          /\ outbox[k].p = a}) >= 3

\* the internal requests whose receiver is their sender
SelfTransfers == {id \in EventIds : /\ Type(id) = INTERNAL
                                    /\ Receiver(id) = Signer(id)}

\* C36 (self-transfer): an internal request whose receiver is its sender
\* changes no Balance: it gets no Transaction, writes no snapshot and no
\* Balance names it; each account and token keeps at most one Balance; and
\* once a run of it got past the lookup and none is pending, one Event row
\* of it is stored and one outcome event is published for it.
C36_SelfTransfer ==
    /\ \A a \in AccountIds, t \in Range(TokenRows) :
           Cardinality(BalanceRows(a, t)) <= 1
    /\ \A id \in SelfTransfers :
           /\ TransactionRows(id) = {}
           /\ SnapshotRows(id) = {}
           /\ Touched(id) = {}
           /\ /\ \E i \in DOMAIN runs : runs[i].req = id /\ runs[i].end # "dropped"
              /\ \A i \in DOMAIN runs : runs[i].req = id => runs[i].pc = "done"
              => /\ Cardinality(EventRows(id)) = 1
                 /\ Cardinality(Outcomes(id)) = 1

\* a self-transfer of an amount its sender holds has ended: every attempt
\* failed on the unique key of balances, the request is failed with "Network
\* Error", and the sender holds what it held
C36_Witness ==
    \E id \in SelfTransfers, i \in DOMAIN runs :
        /\ runs[i].req = id /\ runs[i].end = "failed"
        /\ \A t \in DOMAIN Requested(id) : Held(Signer(id), t) >= Requested(id)[t]
        /\ Cardinality(ErrorOutcomes(id, "Network Error")) = 1
        /\ Cardinality(EventRows(id)) = 1

====
